---- MODULE Spec2Model ----
(***************************************************************************)
(* Step tracker of the buildathon repository: the motion filter and step   *)
(* counter (handleMotion) and the permission / tracking lifecycle of the   *)
(* two App components, src/client/src/App.tsx ("client") and              *)
(* src/src/App.tsx ("root").                                               *)
(*                                                                         *)
(* Numbers.  Accelerations are fixed point: one hundredth of a m/s^2 is    *)
(* Unit.  The filter divides by 5 once per sample, so with Unit = 5^8 the  *)
(* arithmetic of the first eight samples of a session is exact.            *)
(*                                                                         *)
(* React.  A handler, the render that follows its setState calls and the   *)
(* effects of that render are one step (Commit); a setState on an          *)
(* unmounted component is dropped, an assignment to a ref is not.          *)
(***************************************************************************)
EXTENDS Integers, Sequences, FiniteSets, TLC

VARIABLES
    variant,                \* "client" | "root": which App is running
    motionAvailable,        \* 'DeviceMotionEvent' in window
    hasRequestPermission,   \* typeof DeviceMotionEvent.requestPermission === 'function'
    pattern,                \* sample stream of the environment: "free" | "constant" | "alternating" | "faulty"
    lifecycle,              \* "initial" | "mounted" | "unmounted"
    steps,                  \* useState
    isTracking,             \* useState
    permissionState,        \* useState
    error,                  \* useState
    lastStepAtRef,          \* useRef
    filteredMagnitudeRef,   \* useRef
    hasAutoStartedRef,      \* useRef
    permissionRequestedRef, \* useRef (client)
    motionListeners,        \* 'devicemotion' listeners on window
    interactionListeners,   \* event types with handleFirstInteraction armed
    requests,               \* requestPermission() promises not yet settled
    timers,                 \* setTimeout(startTracking, 0) not yet fired (root)
    now,                    \* Date.now()
    delivered,              \* history: 'devicemotion' events dispatched
    log,                    \* history: samples handleMotion processed
    startCount,             \* history: executions of the tracking-start block
    grants,                 \* history: consent requests answered 'granted' (saturating)
    awaitingGesture,        \* history: a gesture-less request rejected, no gesture since
    lastEvent               \* history: the event handled last

vars == <<variant, motionAvailable, hasRequestPermission, pattern, lifecycle,
          steps, isTracking, permissionState, error, lastStepAtRef,
          filteredMagnitudeRef, hasAutoStartedRef, permissionRequestedRef,
          motionListeners, interactionListeners, requests, timers, now,
          delivered, log, startCount, grants, awaitingGesture, lastEvent>>

----
\* Bounds of the model.

MaxSamples == 3         \* devicemotion events of a free stream
MaxPatternSamples == 7  \* devicemotion events of a constant or alternating stream
MaxOutstanding == 2     \* consent requests outstanding at a time
MaxGrants == 2          \* where the history counter grants saturates
Epoch == 1000           \* Date.now() at construction

----
\* Constants of the program.

Unit == 5^8
SMOOTHING_NUM == 4
SMOOTHING_DEN == 5
STEP_THRESHOLD == 110 * Unit
MIN_STEP_INTERVAL_MS == 400
GRAVITY == 981 * Unit

Null == "null"
NotSupported == "Device Motion API is not supported in this context."
NotGranted == "Motion access was not granted."
RequestFailed == "Motion permission request failed."
ApiUnavailable == "Device Motion API is not available in this browser."
\* err.message of a failed chat request, e.g. for a response that is not ok.
ChatRequestFailed == "Chat request failed: Internal Server Error"

InitialSteps == IF variant = "client" THEN 1000 ELSE 0
StepIncrement == IF variant = "client" THEN 1000 ELSE 1

----
\* Motion samples.

\* A nullable value is <<>> (null or undefined) or <<v>>.
Absent == <<>>
Some(v) == <<v>>
Vec(x, y, z) == [x |-> Some(x), y |-> Some(y), z |-> Some(z)]
Sample(g, a) == [accelerationIncludingGravity |-> g, acceleration |-> a]

Rest == Sample(Some(Vec(0, 0, 981)), Some(Vec(0, 0, 0)))
Peak == Sample(Some(Vec(0, 0, 1181)), Some(Vec(0, 0, 200)))
Stride == Sample(Some(Vec(0, 1131, 0)), Absent)
Tilted == Sample(Absent, Some(Vec(-600, 0, 800)))
FreeFall == Sample(Some(Vec(0, 0, 0)), Absent)
NoAxes == Sample(Absent, Some([x |-> Absent, y |-> Absent, z |-> Absent]))
NoData == Sample(Absent, Absent)
\* The number value NaN, which no arithmetic of the model produces otherwise.
NaN == -(2^30)
\* A sensor fault: one axis of the reading is NaN.
Glitch == Sample(Some(Vec(0, NaN, 981)), Some(Vec(0, 0, 0)))

FreeSamples == {Rest, Peak, FreeFall, NoData}
ConstantSamples == {Rest, Peak, Stride, Tilted, FreeFall, NoAxes}
FaultySamples == {Rest, Peak, NoData, Glitch}
Deltas == {200, 250, 450}
FreeDeltas == {200, 250}

Abs(n) == IF n < 0 THEN -n ELSE n
\* Math.sqrt on the perfect squares the samples of the model produce: the
\* largest r in lo..hi with r * r <= n.
RECURSIVE Root(_, _, _)
Root(n, lo, hi) ==
    IF lo = hi THEN lo
    ELSE LET mid == (lo + hi + 1) \div 2 IN
         IF mid * mid <= n THEN Root(n, mid, hi) ELSE Root(n, lo, mid - 1)

Sqrt(n) == Root(n, 0, 2047)
\* v ?? d
Coalesce(v, d) == IF v = Absent THEN d ELSE v[1]

\* event.accelerationIncludingGravity ?? event.acceleration
Reading(event) ==
    IF event.accelerationIncludingGravity # Absent
    THEN event.accelerationIncludingGravity
    ELSE event.acceleration

Magnitude(acceleration) ==
    LET x == Coalesce(acceleration.x, 0)
        y == Coalesce(acceleration.y, 0)
        z == Coalesce(acceleration.z, 0)
    IN IF NaN \in {x, y, z} THEN NaN ELSE Sqrt(x * x + y * y + z * z) * Unit

Filtered(filtered, magnitude) ==
    IF NaN \in {filtered, magnitude} THEN NaN
    ELSE SMOOTHING_NUM * (filtered \div SMOOTHING_DEN)
             + (SMOOTHING_DEN - SMOOTHING_NUM) * (magnitude \div SMOOTHING_DEN)

Delta(magnitude, filtered) ==
    IF NaN \in {magnitude, filtered} THEN NaN ELSE Abs(magnitude - filtered)

\* Mutant: the refractory comparison admits the boundary.
StepDetectedInclusive(delta, t, lastStepAt) ==
    /\ delta # NaN /\ delta > STEP_THRESHOLD
    /\ t - lastStepAt >= MIN_STEP_INTERVAL_MS

\* A comparison with NaN is false.
StepDetected(delta, t, lastStepAt) ==
    /\ delta # NaN /\ delta > STEP_THRESHOLD
    /\ t - lastStepAt > MIN_STEP_INTERVAL_MS

\* setState: dropped once the component is unmounted.
SetState(c, u) ==
    IF c.mounted
    THEN [f \in DOMAIN c |-> IF f \in DOMAIN u THEN u[f] ELSE c[f]]
    ELSE c

\* Mutant: a sample that counts as a step does not move the estimate.
HandleMotionFrozen(c, event, t) ==
    LET acceleration == Reading(event) IN
    IF acceleration = Absent THEN c
    ELSE
        LET magnitude == Magnitude(acceleration[1])
            filtered == Filtered(c.filteredMagnitudeRef, magnitude)
            delta == Delta(magnitude, filtered)
            detected == StepDetected(delta, t, c.lastStepAtRef)
            c1 == [c EXCEPT !.log = Append(@, [at |-> t, magnitude |-> magnitude,
                                               delta |-> delta, detected |-> detected])]
        IN IF detected
           THEN SetState([c1 EXCEPT !.lastStepAtRef = t],
                         [steps |-> c1.steps + StepIncrement])
           ELSE [c1 EXCEPT !.filteredMagnitudeRef = filtered]

\* Mutant: delta is taken against the estimate of before the update.
HandleMotionStale(c, event, t) ==
    LET acceleration == Reading(event) IN
    IF acceleration = Absent THEN c
    ELSE
        LET magnitude == Magnitude(acceleration[1])
            filtered == Filtered(c.filteredMagnitudeRef, magnitude)
            delta == Delta(magnitude, c.filteredMagnitudeRef)
            detected == StepDetected(delta, t, c.lastStepAtRef)
            c1 == [c EXCEPT !.filteredMagnitudeRef = filtered,
                            !.log = Append(@, [at |-> t, magnitude |-> magnitude,
                                               delta |-> delta, detected |-> detected])]
        IN IF detected
           THEN SetState([c1 EXCEPT !.lastStepAtRef = t],
                         [steps |-> c1.steps + StepIncrement])
           ELSE c1

HandleMotion(c, event, t) ==
    LET acceleration == Reading(event) IN
    IF acceleration = Absent THEN c
    ELSE
        LET magnitude == Magnitude(acceleration[1])
            filtered == Filtered(c.filteredMagnitudeRef, magnitude)
            delta == Delta(magnitude, filtered)
            detected == StepDetected(delta, t, c.lastStepAtRef)
            c1 == [c EXCEPT !.filteredMagnitudeRef = filtered,
                            !.log = Append(@, [at |-> t, magnitude |-> magnitude,
                                               delta |-> delta, detected |-> detected])]
        IN IF detected
           THEN SetState([c1 EXCEPT !.lastStepAtRef = t],
                         [steps |-> c1.steps + StepIncrement])
           ELSE c1

----
\* The component as one record, and a consent request in flight.

Cur ==
    [mounted |-> lifecycle = "mounted",
     steps |-> steps, isTracking |-> isTracking,
     permissionState |-> permissionState, error |-> error,
     lastStepAtRef |-> lastStepAtRef, filteredMagnitudeRef |-> filteredMagnitudeRef,
     hasAutoStartedRef |-> hasAutoStartedRef,
     permissionRequestedRef |-> permissionRequestedRef,
     motionListeners |-> motionListeners,
     interactionListeners |-> interactionListeners,
     requests |-> requests, timers |-> timers,
     log |-> log, startCount |-> startCount]

\* What a render reads: the useState values.
Rendered(c) == <<c.steps, c.isTracking, c.permissionState, c.error>>

\* origin: the caller of requestPermission(); isTracking: the value its closure captured.
Request(origin, captured) == [origin |-> origin, isTracking |-> captured]

RequestPermission(c, origin, captured) ==
    [c EXCEPT !.requests = Append(@, Request(origin, captured))]

----
\* Client: src/client/src/App.tsx.

\* The block "if (!hasAutoStartedRef.current && !isTracking) { ... }", with the
\* isTracking its closure captured.
\* Mutant: the start is guarded by the captured isTracking alone.
TrackingStartUnguarded(c, captured) ==
    IF ~captured
    THEN SetState([c EXCEPT !.hasAutoStartedRef = TRUE,
                            !.filteredMagnitudeRef = GRAVITY,
                            !.lastStepAtRef = 0,
                            !.startCount = @ + 1],
                  [steps |-> 0, isTracking |-> TRUE])
    ELSE c

\* Mutant: the start leaves the step count as it is.
TrackingStartKeepsSteps(c, captured) ==
    IF ~c.hasAutoStartedRef /\ ~captured
    THEN SetState([c EXCEPT !.hasAutoStartedRef = TRUE,
                            !.filteredMagnitudeRef = GRAVITY,
                            !.lastStepAtRef = 0,
                            !.startCount = @ + 1],
                  [isTracking |-> TRUE])
    ELSE c

TrackingStart(c, captured) ==
    IF ~c.hasAutoStartedRef /\ ~captured
    THEN SetState([c EXCEPT !.hasAutoStartedRef = TRUE,
                            !.filteredMagnitudeRef = GRAVITY,
                            !.lastStepAtRef = 0,
                            !.startCount = @ + 1],
                  [steps |-> 0, isTracking |-> TRUE])
    ELSE c

\* Mutant: the answer is recorded and the start block is skipped.
GrantedWithoutStart(c, captured) ==
    SetState(c, [permissionState |-> "granted"])

Granted(c, captured) ==
    TrackingStart(SetState(c, [permissionState |-> "granted"]), captured)

\* Mutant: a refusal also clears the step count.
DeniedClearsSteps(c, message) ==
    SetState(c, [permissionState |-> "denied", error |-> message, steps |-> 0])

Denied(c, message) ==
    SetState(c, [permissionState |-> "denied", error |-> message])

\* Mutant: the effect subscribes without looking at isTracking.
SubscriptionEffectAlways(c) ==
    [c EXCEPT !.motionListeners = {"handleMotion"}]

\* useEffect(..., [handleMotion, isTracking]): its cleanup, then its body.
SubscriptionEffect(c) ==
    [c EXCEPT !.motionListeners =
        IF c.isTracking THEN {"handleMotion"} ELSE {}]

\* Mutant: the effect does not look at motionAvailable.
ImmediatePermissionEffectUnguarded(c) ==
    IF c.permissionRequestedRef THEN c
    ELSE IF hasRequestPermission
    THEN RequestPermission([c EXCEPT !.permissionRequestedRef = TRUE],
                           "effect", c.isTracking)
    ELSE Granted([c EXCEPT !.permissionRequestedRef = TRUE], c.isTracking)

\* useEffect(..., [motionAvailable, isTracking]), up to the call of requestPermission.
ImmediatePermissionEffect(c) ==
    IF ~motionAvailable \/ c.permissionRequestedRef THEN c
    ELSE IF hasRequestPermission
    THEN RequestPermission([c EXCEPT !.permissionRequestedRef = TRUE],
                           "effect", c.isTracking)
    ELSE Granted([c EXCEPT !.permissionRequestedRef = TRUE], c.isTracking)

\* .then((status) => ...) and .catch(() => ...) of the effect's request.
ImmediatePermissionSettled(c, req, status) ==
    CASE status = "granted" -> Granted(c, req.isTracking)
      [] status = "denied" -> Denied(c, NotGranted)
      [] OTHER -> [c EXCEPT !.permissionRequestedRef = FALSE]

\* Mutant: the listeners are armed in every state but 'granted'.
FirstInteractionEffectAlways(c, render) ==
    [c EXCEPT !.interactionListeners =
        IF motionAvailable /\ render.permissionState # "granted"
        THEN {"touchstart", "click"} ELSE {}]

\* useEffect(..., [motionAvailable, permissionState, isTracking]): its cleanup,
\* then its body; render is what the render it belongs to read.
FirstInteractionEffect(c, render) ==
    [c EXCEPT !.interactionListeners =
        IF motionAvailable /\ render.permissionState = "idle"
        THEN {"touchstart", "click"} ELSE {}]

\* handleFirstInteraction up to its await; the listener that fired was added
\* with once: true.
HandleFirstInteraction(c, type) ==
    LET c0 == [c EXCEPT !.interactionListeners = @ \ {type}] IN
    IF c0.permissionRequestedRef THEN c0
    ELSE IF hasRequestPermission
    THEN RequestPermission(
             SetState([c0 EXCEPT !.permissionRequestedRef = TRUE],
                      [permissionState |-> "pending"]),
             "gesture", c0.isTracking)
    ELSE [c0 EXCEPT !.interactionListeners = {}]

\* handleFirstInteraction after its await.
FirstInteractionSettled(c, req, status) ==
    LET c1 == CASE status = "granted" -> Granted(c, req.isTracking)
                [] status = "denied" -> Denied(c, NotGranted)
                [] OTHER -> Denied(c, RequestFailed)
    IN [c1 EXCEPT !.interactionListeners = {}]

\* handleRequestPermission up to its await.
HandleRequestPermission(c) ==
    IF ~motionAvailable THEN SetState(c, [error |-> NotSupported])
    ELSE IF hasRequestPermission
    THEN RequestPermission(
             SetState(c, [permissionState |-> "pending", error |-> Null]),
             "manual", c.isTracking)
    ELSE Granted(c, c.isTracking)

\* handleRequestPermission after its await.
RequestPermissionSettled(c, req, status) ==
    CASE status = "granted" -> Granted(c, req.isTracking)
      [] status = "denied" -> Denied(c, NotGranted)
      [] OTHER -> Denied(c, RequestFailed)

\* The button "Enable Step Tracking" is rendered and not disabled.
PermissionButtonEnabled(c) ==
    /\ variant = "client"
    /\ c.mounted
    /\ c.permissionState # "granted" /\ motionAvailable
    /\ c.permissionState # "pending"

----
\* Root: src/src/App.tsx.

\* The last four statements of startTracking.
RootStart(c) ==
    SetState([c EXCEPT !.filteredMagnitudeRef = GRAVITY,
                       !.lastStepAtRef = 0,
                       !.startCount = @ + 1],
             [steps |-> 0, isTracking |-> TRUE])

\* startTracking up to its await.
StartTracking(c) ==
    IF ~motionAvailable THEN SetState(c, [error |-> NotSupported])
    ELSE LET c1 == SetState(c, [error |-> Null]) IN
         IF hasRequestPermission
         THEN RequestPermission(SetState(c1, [permissionState |-> "pending"]),
                                "startTracking", FALSE)
         ELSE RootStart(SetState(c1, [permissionState |-> "granted"]))

\* startTracking after its await.
StartTrackingSettled(c, req, status) ==
    CASE status = "granted" -> RootStart(SetState(c, [permissionState |-> "granted"]))
      [] status = "denied" -> Denied(c, NotGranted)
      [] OTHER -> Denied(c, RequestFailed)

\* Mutant: the effect marks the auto-start as done but schedules nothing.
AutoStartEffectNoTimer(c, render) ==
    IF /\ ~c.hasAutoStartedRef /\ motionAvailable
       /\ render.permissionState = "idle" /\ ~render.isTracking
    THEN [c EXCEPT !.hasAutoStartedRef = TRUE]
    ELSE c

\* useEffect(..., [motionAvailable, permissionState, isTracking, startTracking]).
AutoStartEffect(c, render) ==
    IF /\ ~c.hasAutoStartedRef /\ motionAvailable
       /\ render.permissionState = "idle" /\ ~render.isTracking
    THEN [c EXCEPT !.hasAutoStartedRef = TRUE, !.timers = @ + 1]
    ELSE c

----
\* React: render c and run the effects whose dependencies differ from those of
\* the previous render prev (all of them on the first render), in the order of
\* their declaration, until no effect has set state.

RECURSIVE Commit(_, _, _)
Commit(prev, c, first) ==
    IF ~c.mounted THEN c
    ELSE
        LET tracking == first \/ prev.isTracking # c.isTracking
            permission == first \/ prev.permissionState # c.permissionState
            a1 == IF tracking THEN SubscriptionEffect(c) ELSE c
            a2 == IF variant = "client" /\ tracking
                  THEN ImmediatePermissionEffect(a1) ELSE a1
            a3 == IF ~(tracking \/ permission) THEN a2
                  ELSE IF variant = "client" THEN FirstInteractionEffect(a2, c)
                  ELSE AutoStartEffect(a2, c)
        IN IF Rendered(a3) = Rendered(c) THEN a3 ELSE Commit(c, a3, FALSE)

\* A handler took the component from c to d: render d.
After(c, d) == Commit(c, d, FALSE)

Settled(c, req, status) ==
    CASE req.origin = "effect" -> ImmediatePermissionSettled(c, req, status)
      [] req.origin = "gesture" -> FirstInteractionSettled(c, req, status)
      [] req.origin = "manual" -> RequestPermissionSettled(c, req, status)
      [] OTHER -> StartTrackingSettled(c, req, status)

Remove(seq, i) == SubSeq(seq, 1, i - 1) \o SubSeq(seq, i + 1, Len(seq))

----
\* State after construction: useState and useRef initial values, nothing mounted.

Init ==
    /\ variant \in {"client", "root"}
    /\ motionAvailable \in BOOLEAN
    /\ hasRequestPermission \in (IF motionAvailable THEN BOOLEAN ELSE {FALSE})
    /\ pattern = "free"
    /\ lifecycle = "initial"
    /\ steps = InitialSteps
    /\ isTracking = FALSE
    /\ permissionState = "idle"
    /\ error = Null
    /\ lastStepAtRef = 0
    /\ filteredMagnitudeRef = GRAVITY
    /\ hasAutoStartedRef = FALSE
    /\ permissionRequestedRef = FALSE
    /\ motionListeners = {}
    /\ interactionListeners = {}
    /\ requests = <<>>
    /\ timers = 0
    /\ now = Epoch
    /\ delivered = 0
    /\ log = <<>>
    /\ startCount = 0
    /\ grants = 0
    /\ awaitingGesture = FALSE
    /\ lastEvent = <<"construct">>

Install(c) ==
    /\ Len(c.requests) <= MaxOutstanding
    /\ steps' = c.steps
    /\ isTracking' = c.isTracking
    /\ permissionState' = c.permissionState
    /\ error' = c.error
    /\ lastStepAtRef' = c.lastStepAtRef
    /\ filteredMagnitudeRef' = c.filteredMagnitudeRef
    /\ hasAutoStartedRef' = c.hasAutoStartedRef
    /\ permissionRequestedRef' = c.permissionRequestedRef
    /\ motionListeners' = c.motionListeners
    /\ interactionListeners' = c.interactionListeners
    /\ requests' = c.requests
    /\ timers' = c.timers
    /\ log' = c.log
    /\ startCount' = c.startCount

Environment == <<variant, motionAvailable, hasRequestPermission, pattern>>

\* The first render and its effects.
Mount ==
    /\ lifecycle = "initial"
    /\ lifecycle' = "mounted"
    /\ Install(Commit(Cur, [Cur EXCEPT !.mounted = TRUE], TRUE))
    /\ lastEvent' = <<"mount">>
    /\ UNCHANGED <<Environment, now, delivered, grants, awaitingGesture>>

\* Mutant: the subscription effect returns no cleanup.
UnmountLeaks ==
    /\ lifecycle = "mounted"
    /\ lifecycle' = "unmounted"
    /\ Install([Cur EXCEPT !.mounted = FALSE, !.interactionListeners = {}])
    /\ lastEvent' = <<"unmount">>
    /\ UNCHANGED <<Environment, now, delivered, grants, awaitingGesture>>

\* The cleanups of the effects; promises and timers are left as they are.
Unmount ==
    /\ lifecycle = "mounted"
    /\ lifecycle' = "unmounted"
    /\ Install([Cur EXCEPT !.mounted = FALSE, !.motionListeners = {},
                           !.interactionListeners = {}])
    /\ lastEvent' = <<"unmount">>
    /\ UNCHANGED <<Environment, now, delivered, grants, awaitingGesture>>

\* A 'touchstart' or 'click' event reaches the window's capturing listeners.
Dispatch(c, type) ==
    IF type \in c.interactionListeners
    THEN After(c, HandleFirstInteraction(c, type))
    ELSE c

\* The user touches the page.
Touchstart ==
    /\ lifecycle = "mounted"
    /\ Install(Dispatch(Cur, "touchstart"))
    /\ awaitingGesture' = FALSE
    /\ lastEvent' = <<"touchstart">>
    /\ UNCHANGED <<Environment, lifecycle, now, delivered, grants>>

\* The user clicks somewhere else than on the permission button.
Click ==
    /\ lifecycle = "mounted"
    /\ Install(Dispatch(Cur, "click"))
    /\ awaitingGesture' = FALSE
    /\ lastEvent' = <<"click">>
    /\ UNCHANGED <<Environment, lifecycle, now, delivered, grants>>

\* The user clicks the permission button: the window's capturing listener runs
\* first, then onClick if the button is still enabled after that render.
ClickPermissionButton ==
    /\ PermissionButtonEnabled(Cur)
    /\ LET d == Dispatch(Cur, "click") IN
       Install(IF PermissionButtonEnabled(d)
               THEN After(d, HandleRequestPermission(d))
               ELSE d)
    /\ awaitingGesture' = FALSE
    /\ lastEvent' = <<"button">>
    /\ UNCHANGED <<Environment, lifecycle, now, delivered, grants>>

\* Client: handleSendMessage whose fetch fails or answers with an error
\* status; of its updates only setError touches the state of the model.
SendMessageFailed ==
    /\ variant = "client"
    /\ lifecycle = "mounted"
    /\ Install(After(Cur, SetState(Cur, [error |-> ChatRequestFailed])))
    /\ lastEvent' = <<"chat">>
    /\ UNCHANGED <<Environment, lifecycle, now, delivered, grants, awaitingGesture>>

\* The platform settles a consent request: 'granted', 'denied', or it rejects.
Settle(i, status) ==
    /\ i \in 1..Len(requests)
    /\ LET req == requests[i]
           c == [Cur EXCEPT !.requests = Remove(@, i)]
       IN /\ Install(After(c, Settled(c, req, status)))
          /\ grants' = IF status = "granted" /\ grants < MaxGrants
                       THEN grants + 1 ELSE grants
          /\ awaitingGesture' = IF req.origin = "effect" /\ status = "rejected"
                                THEN TRUE ELSE awaitingGesture
          /\ lastEvent' = <<"settled", req.origin, status>>
    /\ UNCHANGED <<Environment, lifecycle, now, delivered>>

\* setTimeout(() => { startTracking() }, 0) fires.
Timer ==
    /\ timers > 0
    /\ LET c == [Cur EXCEPT !.timers = @ - 1] IN
       Install(After(c, StartTracking(c)))
    /\ lastEvent' = <<"timer">>
    /\ UNCHANGED <<Environment, lifecycle, now, delivered, grants, awaitingGesture>>

\* What the sample stream of the environment may deliver next.
Allowed(event, dt) ==
    CASE pattern = "free" ->
            event \in FreeSamples /\ dt \in FreeDeltas /\ delivered < MaxSamples
      [] pattern = "constant" ->
            /\ event \in ConstantSamples /\ delivered < MaxPatternSamples
            /\ log # <<>> => Magnitude(Reading(event)[1]) = log[1].magnitude
      [] pattern = "alternating" ->
            /\ event \in {Rest, Peak} /\ delivered < MaxPatternSamples
            /\ log # <<>> => Magnitude(Reading(event)[1]) # log[Len(log)].magnitude
            /\ dt < MIN_STEP_INTERVAL_MS
      [] OTHER ->
            event \in FaultySamples /\ delivered < MaxSamples

\* The window dispatches a 'devicemotion' event dt ms after the previous one.
DeviceMotion(event, dt) ==
    /\ lifecycle = "mounted"
    /\ Allowed(event, dt)
    /\ now' = now + dt
    /\ delivered' = delivered + 1
    /\ Install(IF "handleMotion" \in motionListeners
               THEN After(Cur, HandleMotion(Cur, event, now + dt))
               ELSE Cur)
    /\ lastEvent' = <<"devicemotion">>
    /\ UNCHANGED <<Environment, lifecycle, grants, awaitingGesture>>

Next ==
    \/ Mount
    \/ Unmount
    \/ Touchstart
    \/ Click
    \/ ClickPermissionButton
    \/ \E i \in 1..MaxOutstanding, status \in {"granted", "denied", "rejected"} :
          Settle(i, status)
    \/ Timer
    \/ SendMessageFailed
    \/ \E event \in FreeSamples, dt \in FreeDeltas : DeviceMotion(event, dt)

\* What the page shows in its alert.
apiError == IF ~motionAvailable THEN ApiUnavailable ELSE Null
displayError == IF error # Null THEN error ELSE apiError

Spec == Init /\ [][Next]_vars

----
\* A platform with the motion capability and no requestPermission function.
\* No request is ever issued there and the permission button is never enabled
\* (the client is 'granted' from its first commit, the root has no button), so
\* the steps of Next that remain are the ones below.

InitLive == Init /\ motionAvailable /\ ~hasRequestPermission

NextLive ==
    \/ Mount
    \/ Unmount
    \/ Touchstart
    \/ Click
    \/ Timer
    \/ SendMessageFailed
    \/ \E event \in FreeSamples, dt \in FreeDeltas : DeviceMotion(event, dt)

\* The event loop runs a timer that is due: setTimeout(..., 0) is a macrotask
\* that nothing cancels (the auto-start effect returns no cleanup). Effects
\* run within the step that commits their render, so they need no condition.
SpecLive == InitLive /\ [][NextLive]_vars /\ WF_vars(Timer)

----
\* The filter from a fresh start, fed a constant or an alternating stream.

InitFilter ==
    /\ variant \in {"client", "root"}
    /\ motionAvailable = TRUE
    /\ hasRequestPermission = FALSE
    /\ pattern \in {"constant", "alternating", "faulty"}
    /\ lifecycle = "mounted"
    /\ steps = 0
    /\ isTracking = TRUE
    /\ permissionState = "granted"
    /\ error = Null
    /\ lastStepAtRef = 0
    /\ filteredMagnitudeRef = GRAVITY
    /\ hasAutoStartedRef = TRUE
    /\ permissionRequestedRef = (variant = "client")
    /\ motionListeners = {"handleMotion"}
    /\ interactionListeners = {}
    /\ requests = <<>>
    /\ timers = 0
    /\ now = Epoch
    /\ delivered = 0
    /\ log = <<>>
    /\ startCount = 1
    /\ grants = 0
    /\ awaitingGesture = FALSE
    /\ lastEvent = IF variant = "client" THEN <<"mount">> ELSE <<"timer">>

NextFilter ==
    \E event \in ConstantSamples \cup FaultySamples, dt \in Deltas :
        DeviceMotion(event, dt)

SpecFilter == InitFilter /\ [][NextFilter]_vars

----
\* Claims.

Gestures == {<<"touchstart">>, <<"click">>, <<"button">>}
Detected == {i \in 1..Len(log) : log[i].detected}
PeakMagnitude == 1181 * Unit
Peaks(i) == {j \in 1..i : log[j].magnitude = PeakMagnitude}

\* C1: in the client, whatever the interleaving of the mount-time, first-gesture
\* and manual requests and of their answers, the tracking-start block runs at
\* most once, so the step count is reset at most once.
C1_StartedAtMostOnce == variant = "client" => startCount <= 1

\* C1 witness: several requests were answered 'granted' and tracking started once.
C1_Witness == variant = "client" /\ grants >= 2 /\ startCount = 1 /\ isTracking

\* C2: at most one consent request is outstanding in every reachable state.
C2_AtMostOneOutstanding == Len(requests) <= 1

\* C3: whenever a consent request is outstanding, PermissionState is 'pending'.
C3_OutstandingIsPending == requests # <<>> => permissionState = "pending"

\* C4: in the client, once a gesture-less consent request was rejected and
\* PermissionState is 'idle', the next touch or click issues a new consent
\* request (a consequence of the claim, which asserts 'idle' as well).
C4_GestureRetries ==
    [][(/\ variant = "client" /\ lifecycle = "mounted"
        /\ awaitingGesture /\ permissionState = "idle"
        /\ lastEvent' \in Gestures)
       => Len(requests') = Len(requests) + 1]_vars

\* C5: without the motion capability no consent request is ever issued,
\* PermissionState stays 'idle' and tracking never starts.
C5_CapabilityMissing ==
    ~motionAvailable =>
        /\ requests = <<>> /\ timers = 0
        /\ permissionState = "idle"
        /\ ~isTracking /\ startCount = 0 /\ motionListeners = {}

\* C5 witness: a mounted component without the capability has seen a gesture.
C5_Witness == ~motionAvailable /\ lifecycle = "mounted" /\ lastEvent \in Gestures


\* C6: two processed samples 400 ms or less apart never both count as a step;
\* a sample exactly 400 ms after the last counted step is not counted.
C6_RefractoryInterval ==
    \A i \in Detected : \A j \in Detected :
        i < j => log[j].at - log[i].at > MIN_STEP_INTERVAL_MS

\* C6 witness: a sample over the threshold, exactly 400 ms after a counted
\* step, was not counted.
C6_Witness ==
    \E i \in Detected : \E j \in 1..Len(log) :
        /\ i < j /\ ~log[j].detected
        /\ log[j].delta > STEP_THRESHOLD
        /\ log[j].at - log[i].at = MIN_STEP_INTERVAL_MS

\* C7 as claimed: from a fresh start, in a stream of constant magnitude no
\* sample after the first is detected as a step.
C7_ConstantStreamClaimed ==
    pattern = "constant" => \A i \in 2..Len(log) : ~log[i].detected

\* C7 amended: from a fresh start, in a stream of constant magnitude m a
\* sample after the first is detected only if 0.64 * |m - 9.81| > 1.1; when
\* 0.64 * |m - 9.81| <= 1.1 no sample after the first is detected.
C7_ConstantStream ==
    pattern = "constant" =>
        \A i \in 2..Len(log) :
            log[i].detected =>
                (Abs(log[1].magnitude - GRAVITY) \div 25) * 16 > STEP_THRESHOLD

\* C7 witness: a constant stream at 11.31 whose first sample was a step and
\* whose later samples, the refractory interval long over, were not.
C7_Witness ==
    /\ pattern = "constant" /\ Len(log) >= 3
    /\ log[1].magnitude = 1131 * Unit /\ Detected = {1}
    /\ log[3].at - log[1].at > 2 * MIN_STEP_INTERVAL_MS

\* C8 as claimed: in a stream alternating between 9.81 and 11.81 faster than
\* the refractory interval, every 11.81 sample that arrives more than 400 ms
\* after the last counted step is counted (no window is left without a step).
C8_AlternatingStreamClaimed ==
    pattern = "alternating" =>
        \A i \in 1..Len(log) :
            (/\ log[i].magnitude = PeakMagnitude
             /\ \A j \in Detected :
                    j < i => log[i].at - log[j].at > MIN_STEP_INTERVAL_MS)
            => log[i].detected

\* C8 amended: in such a stream no two counted steps are 400 ms or less
\* apart, only 11.81 samples are counted, the first of them always, and none
\* from the fourth 11.81 sample on.
C8_AlternatingStream ==
    pattern = "alternating" =>
        /\ \A i \in Detected : \A j \in Detected :
               i < j => log[j].at - log[i].at > MIN_STEP_INTERVAL_MS
        /\ \A i \in Detected :
               log[i].magnitude = PeakMagnitude /\ Cardinality(Peaks(i)) <= 3
        /\ \A i \in 1..Len(log) :
               Peaks(i) = {i} => log[i].detected

\* C8 witness: the fourth 11.81 sample arrived more than 400 ms after the
\* last counted step and was not counted.
C8_Witness ==
    /\ pattern = "alternating"
    /\ \E i \in 1..Len(log) :
          /\ Cardinality(Peaks(i)) = 4 /\ log[i].magnitude = PeakMagnitude
          /\ ~log[i].detected
          /\ Detected # {}
          /\ \A j \in Detected : log[i].at - log[j].at > MIN_STEP_INTERVAL_MS

\* C9: whenever isTracking goes from false to true, filteredMagnitude is 9.81,
\* lastStepAt is 0 and steps is 0.
C9_StartReseeds ==
    [][(~isTracking /\ isTracking')
       => /\ filteredMagnitudeRef' = GRAVITY
          /\ lastStepAtRef' = 0
          /\ steps' = 0]_vars

\* C9 witness: the client, whose step count is 1000 before the start, tracks
\* with a fresh filter and a step count of 0.
C9_Witness ==
    /\ variant = "client" /\ isTracking /\ startCount = 1
    /\ filteredMagnitudeRef = GRAVITY /\ lastStepAtRef = 0 /\ steps = 0

\* C10: the step count changes only by a detected step in handleMotion, which
\* adds the per-step increment, and by the reset to 0 of the tracking start.
C10_StepCountChanges ==
    [][steps' # steps
       => \/ /\ Len(log') = Len(log) + 1 /\ log'[Len(log')].detected
             /\ lastEvent' = <<"devicemotion">>
             /\ steps' = steps + StepIncrement
          \/ /\ startCount' = startCount + 1
             /\ steps' = 0]_vars

\* C10 witness: after a start, two steps were counted, and a consent request
\* was then refused without a change of the count.
C10_Witness ==
    /\ startCount = 1 /\ steps = 2 * StepIncrement /\ Cardinality(Detected) = 2
    /\ lastEvent = <<"settled", "effect", "denied">>


\* C11: there is at most one 'devicemotion' subscription, and there is one
\* exactly when isTracking is true and the component is mounted.
C11_Subscription ==
    /\ Cardinality(motionListeners) <= 1
    /\ motionListeners # {} <=> (isTracking /\ lifecycle = "mounted")

\* C11 witness: a component that was tracking has been unmounted and its
\* subscription is gone.
C11_Witness ==
    lifecycle = "unmounted" /\ isTracking /\ log # <<>> /\ motionListeners = {}

\* C12: a consent request that settles after the unmount leaves the
\* subscription, isTracking, the step count and the filter state as they were.
C12_StaleSettlement ==
    [][(lifecycle = "unmounted" /\ lastEvent'[1] = "settled")
       => UNCHANGED <<motionListeners, isTracking, steps, permissionState,
                      filteredMagnitudeRef, lastStepAtRef>>]_vars

\* C12 witness: after the unmount of a component that tracked and counted a
\* step, a request issued before the start was answered 'granted'.
C12_Witness ==
    /\ lifecycle = "unmounted" /\ lastEvent[1] = "settled" /\ lastEvent[3] = "granted"
    /\ Detected # {} /\ filteredMagnitudeRef # GRAVITY /\ motionListeners = {}


\* A request of the manual entry point, issued while tracking, is answered.
ManualAnswered ==
    /\ lastEvent'[1] = "settled"
    /\ \E i \in 1..Len(requests) :
          /\ requests[i].origin = "manual"
          /\ requests[i].isTracking
          /\ requests' = Remove(requests, i)

\* C13: the manual start entry point, invoked while tracking is active, leaves
\* the step count, the filter state, isTracking and permissionState as they
\* were, at the call and at the answer of the platform.
C13_ManualStartIdempotent ==
    [][(isTracking /\ (lastEvent' = <<"button">> \/ ManualAnswered))
       => UNCHANGED <<steps, filteredMagnitudeRef, lastStepAtRef, isTracking,
                      permissionState>>]_vars

\* C14: once permissionState is 'granted' it never takes another value.
C14_GrantedTerminal ==
    [][permissionState = "granted" => permissionState' = "granted"]_vars

\* The step called requestPermission(): a request was added, beyond the one an
\* answer removes.
Issued ==
    IF lastEvent'[1] = "settled"
    THEN Len(requests') >= Len(requests)
    ELSE Len(requests') > Len(requests)

\* C15: while permissionState is 'denied' the only step that issues a consent
\* request is the manual retry control, and it moves 'denied' to 'pending'.
C15_NoAutomaticRetry ==
    [][(permissionState = "denied" /\ Issued)
       => (lastEvent' = <<"button">> /\ permissionState' = "pending")]_vars

\* C15 witness: a gesture arrived after a denial, with no request in flight and
\* the request flag clear, and no request was issued.
C15_Witness ==
    /\ permissionState = "denied" /\ lastEvent \in {<<"touchstart">>, <<"click">>}
    /\ ~permissionRequestedRef /\ requests = <<>>


\* C16: with the motion capability present and no requestPermission function,
\* a mounted component reaches 'granted' with tracking active and the
\* subscription installed, with no gesture and no manual action required
\* (timers are fair; the obligation ends if the component is unmounted first).
C16_AutoStart ==
    (lifecycle = "mounted" /\ motionAvailable /\ ~hasRequestPermission)
        ~> (\/ lifecycle = "unmounted"
            \/ /\ permissionState = "granted" /\ isTracking
               /\ motionListeners = {"handleMotion"})

\* C16 witness: the root variant started from its timer, with no gate, and the
\* subscription is installed.
C16_Witness ==
    /\ variant = "root" /\ motionAvailable /\ ~hasRequestPermission
    /\ lastEvent = <<"timer">> /\ lifecycle = "mounted"
    /\ permissionState = "granted" /\ isTracking /\ motionListeners = {"handleMotion"}


\* C17: a sample that reports no acceleration data (no reading, or a reading
\* whose axes are all absent) leaves filteredMagnitude, lastStepAt and the step
\* count unchanged.
C17_NoDataIgnored ==
    [][(\E dt \in Deltas : DeviceMotion(NoData, dt) \/ DeviceMotion(NoAxes, dt))
       => UNCHANGED <<filteredMagnitudeRef, lastStepAtRef, steps>>]_vars

\* C18: a sample whose magnitude is NaN is not propagated: filteredMagnitude
\* is a finite number in every state.
C18_FilterFinite == filteredMagnitudeRef # NaN

DenialMessages == {NotGranted, RequestFailed}

\* C19: a blocking condition always shows an error: 'denied' comes with a
\* non-null error, a missing capability with a non-null displayError, and a
\* denial message stays until the manual retry is invoked.
C19_ErrorExposed ==
    [][/\ permissionState = "denied" => error # Null
       /\ permissionState' = "denied" => error' # Null
       /\ ~motionAvailable => (displayError # Null /\ displayError' # Null)
       /\ (permissionState = "denied" /\ error \in DenialMessages
               /\ lastEvent' # <<"button">>)
           => error' \in DenialMessages]_vars

\* C20: a sample that carries acceleration data moves filteredMagnitude to
\* 0.8 * filteredMagnitude + 0.2 * magnitude whether or not it counts as a
\* step; when it does not count (delta <= 1.1 or now - lastStepAt <= 400)
\* lastStepAt and the step count are unchanged, and when it counts lastStepAt
\* becomes now and the step count grows by one increment.
C20_FrameEffects ==
    [][(lastEvent' = <<"devicemotion">> /\ Len(log') = Len(log) + 1)
       => LET magnitude == log'[Len(log')].magnitude
              delta == Abs(magnitude - filteredMagnitudeRef')
              step == /\ delta > STEP_THRESHOLD
                      /\ now' - lastStepAtRef > MIN_STEP_INTERVAL_MS
          IN /\ SMOOTHING_DEN * (filteredMagnitudeRef' - filteredMagnitudeRef)
                    = (SMOOTHING_DEN - SMOOTHING_NUM) * (magnitude - filteredMagnitudeRef)
             /\ ~step => UNCHANGED <<lastStepAtRef, steps>>
             /\ step => (lastStepAtRef' = now' /\ steps' = steps + StepIncrement)]_vars

\* C20 witness: three samples were processed; the first and the third counted
\* as steps and the second did not.
C20_Witness ==
    /\ lastEvent = <<"devicemotion">> /\ Len(log) = 3
    /\ log[1].detected /\ ~log[2].detected /\ log[3].detected
    /\ lifecycle = "mounted"

\* C21: in every state of a mounted component with permissionState 'granted'
\* the tracking start has been executed: the has-started guard is set and
\* isTracking is true.
C21_GrantStarts ==
    (lifecycle = "mounted" /\ permissionState = "granted")
        => (hasAutoStartedRef /\ isTracking /\ startCount >= 1)

\* C21 witness: a second 'granted' answer reached a mounted component that was
\* already tracking; the guard kept the first start.
C21_Witness ==
    /\ lifecycle = "mounted" /\ permissionState = "granted"
    /\ lastEvent[1] = "settled" /\ grants = 2 /\ startCount = 1 /\ isTracking

\* C22: isTracking implies permissionState 'granted'; the motion stream is
\* never subscribed while permissionState is 'denied', 'pending' or 'idle'.
C22_TrackingImpliesGranted ==
    (isTracking \/ motionListeners # {}) => permissionState = "granted"

\* C23: while isTracking is false a delivered 'devicemotion' event changes
\* neither filteredMagnitude, lastStepAt nor the step count.
C23_NoSampleBeforeStart ==
    [][(~isTracking /\ lastEvent' = <<"devicemotion">>)
       => UNCHANGED <<filteredMagnitudeRef, lastStepAtRef, steps, log>>]_vars

\* C23 witness: samples were delivered to a mounted component whose request
\* was refused, and none was processed.
C23_Witness ==
    /\ lifecycle = "mounted" /\ ~isTracking /\ permissionState = "denied"
    /\ lastEvent = <<"devicemotion">> /\ delivered >= 2 /\ log = <<>>
    /\ filteredMagnitudeRef = GRAVITY /\ steps = InitialSteps

\* C24: once isTracking is true a consent request is issued only by the
\* manual control; the step that sets isTracking issues none.
C24_NoRequestWhileTracking ==
    [][((isTracking \/ isTracking') /\ Issued) => lastEvent' = <<"button">>]_vars

\* On a platform without requestPermission the steps left out of NextLive are
\* never enabled.
NextLiveComplete ==
    (motionAvailable /\ ~hasRequestPermission)
        => (requests = <<>> /\ ~PermissionButtonEnabled(Cur))

====
